---- MODULE Spec2Model ----
(***************************************************************************)
(* Orchestration core of the UDA-Hub support system: the ticket store      *)
(* (memory_tools.py), the user-history cache (MemoryManager in             *)
(* memory_manager.py) and the ticket entry point invoke_ticket             *)
(* (workflow.py), run by worker threads that share the store and the       *)
(* cache.                                                                  *)
(***************************************************************************)
EXTENDS Integers, Sequences, FiniteSets, TLC

(* ------------------------------ bounds -------------------------------- *)
\* calls (invoke_ticket, store_interaction, update_ticket_status) started in
\* one behaviour of the ticket pipeline
MaxOps == 2
\* calls (get_user_history) started in one behaviour of the history cache
MaxCacheOps == 3
\* clock advances in one behaviour of the history cache
MaxTicks == 2
\* calls started in one behaviour of the one-call-at-a-time memory manager
MaxSeqOps == 4
\* invoke_ticket calls started in one behaviour of the routed pipeline
MaxRouteOps == 2
\* calls started in one behaviour of readers and clearers of the cache
MaxRaceOps == 3
\* knowledge articles of the account in one search
MaxArticles == 4
\* messages in the state handed to enrich_state_with_history
MaxMessages == 3
\* cancel_reservation calls in one behaviour
MaxCancels == 4

(* ------------------------- program constants -------------------------- *)
\* "Use cache if less than 5 minutes old": (now - cached_time).seconds < 300
TTL == 300
\* timedelta.seconds is the seconds field of a (days, seconds) pair
DaySeconds == 86400
\* enrich_state_with_history asks for the last 3 tickets
EnrichLimit == 3
\* should_escalate: confidence < 0.5, in hundredths
EscalationThreshold == 50

(* ------------------------------ inputs -------------------------------- *)
Procs == {"w1", "w2"}

\* user ids are strings; they are kept as character sequences because the
\* cache key is built from them and searched for them
UserA == <<"a">>
UserAB == <<"a", "b">>

\* a user the store does not know
UserUnknown == <<"z">>

\* ids create_escalation_ticket gives its tickets (uuid4), in order of use
EscalationIds == <<"e1", "e2", "e3">>

TicketIds == {"t1", "t2", "t9"} \cup {EscalationIds[i] : i \in 1..Len(EscalationIds)}
Limits == {1, EnrichLimit}
TickSteps == {1, TTL - 1, TTL, DaySeconds}

\* final texts the supervisor can hand back, as character sequences
TextPlain == <<"D", "o", "n", "e">>
TextEscalated == <<"E", "s", "c", "a", "l", "a", "t", "e", "d">>
TextBilling == <<"B", "i", "l", "l", "i", "n", "g", " ", "T", "e", "a", "m">>
FinalTexts == {TextPlain, TextEscalated, TextBilling}

VARIABLES
  users,         \* udahub.User rows: the external_user_ids the store knows
  tickets,       \* udahub.Ticket rows in creation order: [ticket_id, user_id]
  status,        \* udahub.TicketMetadata.status per ticket id, "none": no row
  messages,      \* udahub.TicketMessage rows per ticket id, in order
  memory_cache,  \* MemoryManager.memory_cache: key -> <<data, cached_time>>
  now,           \* datetime.now(), in seconds
  th,            \* per worker: the running call's position and locals
  opsLeft,       \* calls the workers may still start
  ticksLeft,     \* advances the clock may still make
  input,         \* the argument of a call of a pure function
  output,        \* <<>> before that call, <<what it returned or raised>> after
  reservations,  \* cultpass.Reservation.status per reservation id, "none": no row
  successes      \* per reservation id, the cancel_reservation calls that reported success

vars == <<users, tickets, status, messages, memory_cache, now, th, opsLeft, ticksLeft,
          input, output, reservations, successes>>

(* ------------------------------ helpers ------------------------------- *)
Reverse(s) == [i \in 1..Len(s) |-> s[Len(s) + 1 - i]]

Take(s, n) == SubSeq(s, 1, IF n < Len(s) THEN n ELSE Len(s))

TicketExists(t) == \E i \in 1..Len(tickets) : tickets[i].ticket_id = t

\* str(limit) for the limits in use
StrOfInt(n) == CASE n = 1 -> <<"1">> [] n = 3 -> <<"3">> [] n = 5 -> <<"5">> [] OTHER -> <<"1", "0">>

\* cache_key = f"user_history_{user_id}_{limit}"
cache_key(user_id, limit) == <<"user_history_">> \o user_id \o <<"_">> \o StrOfInt(limit)

\* timedelta.seconds: the seconds field, 0 <= seconds < 86400, days dropped
Seconds(delta) == delta % DaySeconds

\* the test of line 111: (datetime.now() - cached_time).seconds < 300
CacheFreshOffByTwo(cached_time, t) == Seconds(t - cached_time) < TTL + 2

CacheFresh(cached_time, t) == Seconds(t - cached_time) < TTL

(* --------------------- the store behind the tools --------------------- *)
\* the rows of one ticket in get_user_ticket_history's answer
TicketRow(t) ==
  [ticket_id |-> t,
   status |-> IF status[t] = "none" THEN "unknown" ELSE status[t],
   message_count |-> Len(messages[t])]

\* get_user_ticket_history: the user's tickets, most recent first, at most limit
UserHistory(user_id, limit) ==
  LET mine == SelectSeq(tickets, LAMBDA r : r.user_id = user_id)
      shown == Take(Reverse(mine), limit)
  IN  IF user_id \notin users
      THEN [found |-> FALSE, error |-> FALSE, tickets |-> <<>>]
      ELSE [found |-> TRUE, error |-> FALSE,
            tickets |-> [i \in 1..Len(shown) |-> TicketRow(shown[i].ticket_id)]]

\* get_user_ticket_history's answer when the query fails (lines 101-106)
HistoryErrorResult == [found |-> FALSE, error |-> TRUE, tickets |-> <<>>]

\* get_user_history's own answer when the tool call raises (lines 126-131)
HistoryFallbackFound == [found |-> TRUE, error |-> TRUE, tickets |-> <<>>]

HistoryFallback == [found |-> FALSE, error |-> TRUE, tickets |-> <<>>]

(* ------------------------------ workers ------------------------------- *)
NoResult == [found |-> FALSE, error |-> FALSE, tickets |-> <<>>]

IdleThread ==
  [op |-> "none", pc |-> "idle",
   ticket_id |-> "t1", user_id |-> UserA, limit |-> 1,
   state_messages |-> <<>>,
   history |-> NoResult,
   final_text |-> <<>>,
   status_arg |-> "open",
   cache_keys |-> {},
   \* what the call did, for the properties
   startStatus |-> "none",
   rerun |-> FALSE,
   histFound |-> FALSE,
   readAge |-> -1,
   served |-> FALSE,
   fetches |-> 0,
   fetchFailed |-> FALSE,
   calls |-> 0,
   handlerFailed |-> FALSE,
   wroteMsg |-> FALSE,
   wroteStatus |-> FALSE,
   cleared |-> 0,
   category |-> <<>>,
   keywords |-> <<>>,
   escalation |-> "not_called",
   escalation_answer |-> "none",
   ret |-> "none"]

Ended == {"done", "raised"}

\* a worker takes a new call when it runs none; the workers are
\* interchangeable, so the first call of a behaviour goes to w1
CanStart(p) ==
  /\ th[p].pc \in {"idle"} \cup Ended
  /\ opsLeft > 0
  /\ p = "w1" \/ th["w1"].op # "none"

\* the call returns or raises: its locals are gone, what it did is kept
Finish(r, pc, ret) ==
  [r EXCEPT !.pc = pc, !.ret = ret,
            !.user_id = IdleThread.user_id, !.limit = IdleThread.limit,
            !.state_messages = IdleThread.state_messages,
            !.cache_keys = IdleThread.cache_keys]

ReservationIds == {"r1", "r2"}

\* the UdaHub store as the setup leaves it, an empty cache, idle workers
UdaHubConstructed ==
  /\ users = {UserA, UserAB}
  /\ tickets = <<[ticket_id |-> "t1", user_id |-> UserA],
                 [ticket_id |-> "t2", user_id |-> UserA]>>
  /\ status = [t \in TicketIds |-> IF t = "t1" THEN "open" ELSE "none"]
  /\ messages = [t \in TicketIds |-> <<>>]
  /\ memory_cache = <<>>
  /\ now = 0
  /\ th = [p \in Procs |-> IdleThread]

\* the same, with no reservation in the CultPass store
Constructed ==
  /\ UdaHubConstructed
  /\ reservations = [r \in ReservationIds |-> "none"]
  /\ successes = [r \in ReservationIds |-> 0]

\* no pure function is being applied
NoPureCall ==
  /\ input = <<>>
  /\ output = <<>>

Init ==
  /\ Constructed
  /\ NoPureCall
  /\ opsLeft = MaxOps
  /\ ticksLeft = 0

InitCache ==
  /\ Constructed
  /\ NoPureCall
  /\ opsLeft = MaxCacheOps
  /\ ticksLeft = MaxTicks

InitSeq ==
  /\ Constructed
  /\ NoPureCall
  /\ opsLeft = MaxSeqOps
  /\ ticksLeft = 0

(* ------------------------------ the clock ----------------------------- *)
Tick(d) ==
  /\ ticksLeft > 0
  /\ now' = now + d
  /\ ticksLeft' = ticksLeft - 1
  /\ UNCHANGED <<input, output, reservations, successes, users, tickets, status, messages, memory_cache, th, opsLeft>>

(* ------------------- MemoryManager.get_user_history ------------------- *)
\* enrich_state_with_history, after get_user_history returned `history`
EnrichedInFront(msgs, history) ==
  IF history.found /\ history.tickets # <<>> THEN <<"context">> \o msgs ELSE msgs

Enriched(msgs, history) ==
  IF history.found /\ history.tickets # <<>>
  THEN IF msgs # <<>> THEN <<msgs[1], "context">> \o Tail(msgs) ELSE <<"context">>
  ELSE msgs

\* get_user_history returns `history` to its caller
HistoryReturn(r, history) ==
  IF r.op = "invoke"
  THEN [r EXCEPT !.history = NoResult, !.histFound = history.found, !.pc = "supervise",
                 !.state_messages = Enriched(r.state_messages, history)]
  ELSE Finish([r EXCEPT !.history = history, !.histFound = history.found], "done", "history")

\* a direct call of get_user_history(user_id, limit)
get_user_history_start(p, user_id, limit) ==
  /\ CanStart(p)
  /\ th' = [th EXCEPT ![p] = [IdleThread EXCEPT !.op = "get", !.pc = "g_check",
                                               !.user_id = user_id, !.limit = limit]]
  /\ opsLeft' = opsLeft - 1
  /\ UNCHANGED <<input, output, reservations, successes, users, tickets, status, messages, memory_cache, now, ticksLeft>>

\* line 108: if cache_key in self.memory_cache
get_user_history_check(p) ==
  /\ th[p].pc = "g_check"
  /\ th' = [th EXCEPT ![p].pc =
              IF cache_key(th[p].user_id, th[p].limit) \in DOMAIN memory_cache
              THEN "g_read" ELSE "g_fetch"]
  /\ UNCHANGED <<input, output, reservations, successes, users, tickets, status, messages, memory_cache, now, opsLeft, ticksLeft>>

\* lines 109-112: read the entry, serve it when CacheFresh
get_user_history_read(p) ==
  LET r == th[p]
      key == cache_key(r.user_id, r.limit)
  IN  /\ r.pc = "g_read"
      /\ IF key \notin DOMAIN memory_cache
         THEN \* KeyError, outside the try of line 115
              th' = [th EXCEPT ![p] = Finish(r, "raised", "KeyError")]
         ELSE LET cached_data == memory_cache[key][1]
                  cached_time == memory_cache[key][2]
              IN  IF CacheFresh(cached_time, now)
                  THEN th' = [th EXCEPT ![p] =
                                [HistoryReturn(r, cached_data) EXCEPT
                                   !.served = TRUE, !.readAge = now - cached_time]]
                  ELSE th' = [th EXCEPT ![p].pc = "g_fetch",
                                        ![p].readAge = now - cached_time]
      /\ UNCHANGED <<input, output, reservations, successes, users, tickets, status, messages, memory_cache, now, opsLeft, ticksLeft>>

\* lines 116-120: get_user_ticket_history.invoke(...) and json.loads
get_user_history_fetch(p, outcome) ==
  LET r == th[p] IN
  /\ r.pc = "g_fetch"
  /\ outcome \in {"ok", "error_result", "raise"}
  /\ th' = [th EXCEPT ![p] =
       CASE outcome = "ok" ->
              [r EXCEPT !.pc = "g_store", !.fetches = r.fetches + 1,
                        !.history = UserHistory(r.user_id, r.limit)]
         [] outcome = "error_result" ->
              [r EXCEPT !.pc = "g_store", !.fetches = r.fetches + 1,
                        !.fetchFailed = TRUE, !.history = HistoryErrorResult]
         [] OTHER ->
              [HistoryReturn(r, HistoryFallback) EXCEPT
                 !.fetches = r.fetches + 1, !.fetchFailed = TRUE]]
  /\ UNCHANGED <<input, output, reservations, successes, users, tickets, status, messages, memory_cache, now, opsLeft, ticksLeft>>

\* lines 123-125: self.memory_cache[cache_key] = (result, datetime.now())
get_user_history_store(p) ==
  LET r == th[p]
      key == cache_key(r.user_id, r.limit)
  IN  /\ r.pc = "g_store"
      /\ memory_cache' = [k \in DOMAIN memory_cache \cup {key} |->
                            IF k = key THEN <<r.history, now>> ELSE memory_cache[k]]
      /\ th' = [th EXCEPT ![p] = HistoryReturn(r, r.history)]
      /\ UNCHANGED <<input, output, reservations, successes, users, tickets, status, messages, now, opsLeft, ticksLeft>>

(* ------------------- the tools of memory_tools.py --------------------- *)
Terminal == {"resolved", "escalated", "failed"}

\* update_ticket_status lines 192-217: the row the commit leaves, whatever
\* the stored status was (old_status is read and not used)
StatusAfterUpdate(old_status, new_status) == new_status

\* update_ticket_status as one transaction: outcome "ok" commits when the
\* ticket exists; a missing ticket and a failed query change nothing
update_ticket_status_commit(t, new_status, outcome) ==
  IF outcome = "ok" /\ TicketExists(t)
  THEN status' = [status EXCEPT ![t] = StatusAfterUpdate(status[t], new_status)]
  ELSE UNCHANGED status

\* add_ticket_message as one transaction (lines 259-279)
add_ticket_message_commit(t, role, content, outcome) ==
  IF outcome = "ok" /\ TicketExists(t)
  THEN messages' = [messages EXCEPT ![t] = Append(@, [role |-> role, content |-> content])]
  ELSE UNCHANGED messages

ToolOutcomes == {"ok", "db_error", "raise"}

\* a direct call of the update_ticket_status tool
update_ticket_status(p, t, new_status, outcome) ==
  /\ CanStart(p)
  /\ outcome \in {"ok", "db_error"}
  /\ update_ticket_status_commit(t, new_status, outcome)
  /\ th' = [th EXCEPT ![p] = [IdleThread EXCEPT
              !.op = "update", !.pc = "done", !.ticket_id = t, !.status_arg = new_status,
              !.startStatus = status[t],
              !.wroteStatus = (outcome = "ok" /\ TicketExists(t)),
              !.ret = IF outcome = "ok" /\ TicketExists(t) THEN "success" ELSE "error"]]
  /\ opsLeft' = opsLeft - 1
  /\ UNCHANGED <<input, output, reservations, successes, users, tickets, messages, memory_cache, now, ticksLeft>>

(* ------------------------ workflow.invoke_ticket ---------------------- *)
\* str.lower() on the letters in use
Lower(text) ==
  [i \in 1..Len(text) |->
     CASE text[i] = "B" -> "b" [] text[i] = "D" -> "d" [] text[i] = "E" -> "e"
       [] text[i] = "T" -> "t" [] text[i] = "G" -> "g" [] text[i] = "H" -> "h"
       [] text[i] = "I" -> "i" [] text[i] = "P" -> "p" [] text[i] = "R" -> "r"
       [] OTHER -> text[i]]

\* needle in text
Contains(text, needle) ==
  \E i \in 0..(Len(text) - Len(needle)) :
     \A j \in 1..Len(needle) : text[i + j] = needle[j]

\* line 119: the status written for final_text
DetectStatusFailed(final_text) == "failed"

DetectStatusExactCase(final_text) ==
  IF \/ Contains(final_text, <<"e", "s", "c", "a", "l", "a", "t">>)
     \/ Contains(final_text, <<"b", "i", "l", "l", "i", "n", "g", " ", "t", "e", "a", "m">>)
  THEN "escalated" ELSE "resolved"

DetectStatus(final_text) ==
  IF \/ Contains(Lower(final_text), <<"e", "s", "c", "a", "l", "a", "t">>)
     \/ Contains(Lower(final_text), <<"b", "i", "l", "l", "i", "n", "g", " ", "t", "e", "a", "m">>)
  THEN "escalated" ELSE "resolved"

\* lines 103-105: every call builds a fresh state and enriches it; the
\* stored status of the ticket is not read
InvokeEntryIdempotent(t) == IF status[t] \in Terminal THEN "done" ELSE "g_check"

InvokeEntry(t) == "g_check"

\* an earlier invoke_ticket on ticket t has returned after writing its status
AlreadyProcessed(t) ==
  \E q \in Procs : /\ th[q].op = "invoke" /\ th[q].pc = "done"
                   /\ th[q].ticket_id = t /\ th[q].wroteStatus

invoke_ticket_start(p, t, u) ==
  /\ CanStart(p)
  /\ th' = [th EXCEPT ![p] = [IdleThread EXCEPT
              !.op = "invoke", !.pc = InvokeEntry(t), !.ticket_id = t, !.user_id = u,
              !.limit = EnrichLimit, !.state_messages = <<"human">>,
              !.startStatus = status[t], !.rerun = AlreadyProcessed(t)]]
  /\ opsLeft' = opsLeft - 1
  /\ UNCHANGED <<input, output, reservations, successes, users, tickets, status, messages, memory_cache, now, ticksLeft>>

\* lines 108-111: supervisor.invoke raised; nothing around it catches
SupervisorRaisedSwallowed(r) ==
  [r EXCEPT !.calls = r.calls + 1, !.handlerFailed = TRUE,
            !.final_text = TextPlain, !.pc = "add_msg"]

SupervisorRaised(r) ==
  Finish([r EXCEPT !.calls = r.calls + 1, !.handlerFailed = TRUE], "raised", "HandlerError")

\* lines 108-114: supervisor.invoke(...) returns; final_text = str(result)
invoke_ticket_supervise(p, text) ==
  LET r == th[p] IN
  /\ r.pc = "supervise"
  /\ th' = [th EXCEPT ![p] =
              [r EXCEPT !.calls = r.calls + 1, !.final_text = text, !.pc = "add_msg"]]
  /\ UNCHANGED <<input, output, reservations, successes, users, tickets, status, messages, memory_cache, now, opsLeft, ticksLeft>>

\* lines 108-111: supervisor.invoke(...) raises (a handler failed or timed out)
invoke_ticket_supervise_raise(p) ==
  /\ th[p].pc = "supervise"
  /\ th' = [th EXCEPT ![p] = SupervisorRaised(th[p])]
  /\ UNCHANGED <<input, output, reservations, successes, users, tickets, status, messages, memory_cache, now, opsLeft, ticksLeft>>

\* line 118: add_ticket_message.invoke(...); a raise skips line 120
invoke_ticket_add_message(p, outcome) ==
  LET r == th[p] IN
  /\ r.pc = "add_msg"
  /\ outcome \in ToolOutcomes
  /\ add_ticket_message_commit(r.ticket_id, "ai", r.final_text, outcome)
  /\ th' = [th EXCEPT ![p] =
              IF outcome = "raise"
              THEN Finish(r, "done", "final_text")
              ELSE [r EXCEPT !.pc = "upd_status",
                             !.wroteMsg = (outcome = "ok" /\ TicketExists(r.ticket_id))]]
  /\ UNCHANGED <<input, output, reservations, successes, users, tickets, status, memory_cache, now, opsLeft, ticksLeft>>

\* lines 119-128: update_ticket_status.invoke(...), then return final_text
invoke_ticket_update_status(p, outcome) ==
  LET r == th[p] IN
  /\ r.pc = "upd_status"
  /\ outcome \in ToolOutcomes
  /\ update_ticket_status_commit(r.ticket_id, DetectStatus(r.final_text), outcome)
  /\ th' = [th EXCEPT ![p] =
              Finish([r EXCEPT !.status_arg = DetectStatus(r.final_text),
                               !.wroteStatus = (outcome = "ok" /\ TicketExists(r.ticket_id))],
                     "done", "final_text")]
  /\ UNCHANGED <<input, output, reservations, successes, users, tickets, messages, memory_cache, now, opsLeft, ticksLeft>>

(* ------------- the agents run by supervisor.invoke ------------------- *)
\* what the classifier agent made of the ticket: category and keywords
Classifications ==
  {[category |-> <<"billing">>, keywords |-> <<<<"charge", "refund">>>>],
   [category |-> <<"technical">>, keywords |-> <<<<"login">>>>]}

\* the escalation agent: did not call create_escalation_ticket, called it
\* and the insert was committed, called it and the query failed, called it
\* and the read of user.user_name of line 380 failed: the commit of line 374
\* expired user, so that read queries the database again
EscalationOutcomes == {"not_called", "ok", "db_error", "refresh_error"}

\* the id of the next ticket create_escalation_ticket creates
FreeEscalationIds == {i \in 1..Len(EscalationIds) : ~TicketExists(EscalationIds[i])}

\* create_escalation_ticket lines 323-390: an unknown user and a failed
\* query answer success = false and create nothing
EscalationCreated(u, outcome) == outcome \in {"ok", "refresh_error"} /\ u \in users

\* lines 376-390: success = true is answered when nothing raised, any
\* exception, the one after the commit included, answers success = false
EscalationAnswer(u, outcome) ==
  IF outcome = "not_called" THEN "none"
  ELSE IF outcome = "ok" /\ u \in users THEN "success"
  ELSE "failure"

create_escalation_ticket_commit(u, outcome) ==
  IF EscalationCreated(u, outcome)
  THEN LET e == EscalationIds[CHOOSE i \in FreeEscalationIds :
                                \A j \in FreeEscalationIds : i <= j]
       IN  /\ tickets' = Append(tickets, [ticket_id |-> e, user_id |-> u])
           /\ status' = [status EXCEPT ![e] = "escalated"]
           /\ messages' = [messages EXCEPT ![e] =
                             <<[role |-> "system", content |-> <<"ESCALATION REQUIRED">>]>>]
  ELSE UNCHANGED <<tickets, status, messages>>

\* lines 108-114 with the agents spelled out: the classifier classifies,
\* the escalation agent may call create_escalation_ticket, and the last
\* assistant message comes back as final_text
invoke_ticket_supervise_agents(p, text, classification, escalation) ==
  LET r == th[p] IN
  /\ r.pc = "supervise"
  /\ FreeEscalationIds # {}
  /\ create_escalation_ticket_commit(r.user_id, escalation)
  /\ th' = [th EXCEPT ![p] =
              [r EXCEPT !.calls = r.calls + 1, !.final_text = text, !.pc = "add_msg",
                        !.category = classification.category,
                        !.keywords = classification.keywords,
                        !.escalation =
                           IF escalation = "not_called" THEN "not_called"
                           ELSE IF EscalationCreated(r.user_id, escalation) THEN "created"
                           ELSE "failed",
                        !.escalation_answer = EscalationAnswer(r.user_id, escalation)]]
  /\ UNCHANGED <<input, output, reservations, successes, users, memory_cache, now, opsLeft, ticksLeft>>

(* ------------------- MemoryManager.store_interaction ------------------ *)
\* line 232: user_id in k
KeyStartsWith(k, user_id) == Len(user_id) <= Len(k) /\ SubSeq(k, 1, Len(user_id)) = user_id

KeyMentions(k, user_id) == Contains(k, user_id)

store_interaction_start(p, t, u, s) ==
  /\ CanStart(p)
  /\ th' = [th EXCEPT ![p] = [IdleThread EXCEPT
              !.op = "store", !.pc = "s_status", !.ticket_id = t, !.user_id = u,
              !.status_arg = s, !.startStatus = status[t]]]
  /\ opsLeft' = opsLeft - 1
  /\ UNCHANGED <<input, output, reservations, successes, users, tickets, status, messages, memory_cache, now, ticksLeft>>

\* lines 218-222: update_ticket_status.invoke(...), its answer dropped
store_interaction_status(p, outcome) ==
  LET r == th[p] IN
  /\ r.pc = "s_status"
  /\ outcome \in ToolOutcomes
  /\ update_ticket_status_commit(r.ticket_id, r.status_arg, outcome)
  /\ th' = [th EXCEPT ![p] =
              IF outcome = "raise"
              THEN Finish(r, "done", "False")
              ELSE [r EXCEPT !.pc = "s_msg",
                             !.wroteStatus = (outcome = "ok" /\ TicketExists(r.ticket_id))]]
  /\ UNCHANGED <<input, output, reservations, successes, users, tickets, messages, memory_cache, now, opsLeft, ticksLeft>>

\* lines 225-229: add_ticket_message.invoke(...), its answer dropped
store_interaction_message(p, outcome) ==
  LET r == th[p] IN
  /\ r.pc = "s_msg"
  /\ outcome \in ToolOutcomes
  /\ add_ticket_message_commit(r.ticket_id, "ai", <<"Resolution">>, outcome)
  /\ th' = [th EXCEPT ![p] =
              IF outcome = "raise"
              THEN Finish(r, "done", "False")
              ELSE [r EXCEPT !.pc = "s_list",
                             !.wroteMsg = (outcome = "ok" /\ TicketExists(r.ticket_id))]]
  /\ UNCHANGED <<input, output, reservations, successes, users, tickets, status, memory_cache, now, opsLeft, ticksLeft>>

\* line 232: cache_keys = [k for k in self.memory_cache.keys() if user_id in k]
store_interaction_list_keys(p) ==
  LET r == th[p] IN
  /\ r.pc = "s_list"
  /\ th' = [th EXCEPT ![p].pc = "s_del",
                      ![p].cache_keys = {k \in DOMAIN memory_cache : KeyMentions(k, r.user_id)}]
  /\ UNCHANGED <<input, output, reservations, successes, users, tickets, status, messages, memory_cache, now, opsLeft, ticksLeft>>

\* lines 233-236: del self.memory_cache[key] for each listed key, return True;
\* a key another worker removed meanwhile raises KeyError: return False
store_interaction_delete_keys(p) ==
  LET r == th[p] IN
  /\ r.pc = "s_del"
  /\ IF r.cache_keys \subseteq DOMAIN memory_cache
     THEN /\ memory_cache' = [k \in DOMAIN memory_cache \ r.cache_keys |-> memory_cache[k]]
          /\ th' = [th EXCEPT ![p] =
                      Finish([r EXCEPT !.cleared = Cardinality(r.cache_keys)], "done", "True")]
     ELSE /\ memory_cache' = [k \in DOMAIN memory_cache \ r.cache_keys |-> memory_cache[k]]
          /\ th' = [th EXCEPT ![p] = Finish(r, "done", "False")]
  /\ UNCHANGED <<input, output, reservations, successes, users, tickets, status, messages, now, opsLeft, ticksLeft>>

(* --------------------------- specifications --------------------------- *)
get_user_history_steps(p) ==
  \/ get_user_history_check(p)
  \/ get_user_history_read(p)
  \/ \E o \in {"ok", "error_result", "raise"} : get_user_history_fetch(p, o)
  \/ get_user_history_store(p)

\* the ticket pipeline under concurrent workers, the clock standing still
TicketInputs == {"t1", "t9"}

Next ==
  \/ \E p \in Procs, t \in TicketInputs : invoke_ticket_start(p, t, UserA)
  \/ \E p \in Procs : get_user_history_steps(p)
  \/ \E p \in Procs, text \in FinalTexts : invoke_ticket_supervise(p, text)
  \/ \E p \in Procs : invoke_ticket_supervise_raise(p)
  \/ \E p \in Procs, o \in ToolOutcomes : invoke_ticket_add_message(p, o)
  \/ \E p \in Procs, o \in ToolOutcomes : invoke_ticket_update_status(p, o)
  \/ \E p \in Procs, t \in TicketInputs, s \in {"open", "resolved"}, o \in {"ok", "db_error"} :
       update_ticket_status(p, t, s, o)
  \/ \E p \in Procs, t \in TicketInputs, s \in {"resolved"} : store_interaction_start(p, t, UserA, s)
  \/ \E p \in Procs, o \in ToolOutcomes : store_interaction_status(p, o)
  \/ \E p \in Procs, o \in ToolOutcomes : store_interaction_message(p, o)
  \/ \E p \in Procs : store_interaction_list_keys(p)
  \/ \E p \in Procs : store_interaction_delete_keys(p)

Spec == Init /\ [][Next]_vars

\* the history cache under the clock
CacheUsers == {UserA}

NextCache ==
  \/ \E d \in TickSteps : Tick(d)
  \/ \E p \in Procs, u \in CacheUsers, l \in Limits : get_user_history_start(p, u, l)
  \/ \E p \in Procs : get_user_history_steps(p)

SpecCache == InitCache /\ [][NextCache]_vars

\* the memory manager used by one caller, one call after the other, as in
\* scripts/memory_demo.py: get_user_history, store_interaction, get_user_history
NoCallRunning == \A q \in Procs : th[q].pc \in {"idle"} \cup Ended

SeqUsers == {UserA, UserAB}

NextSeq ==
  \/ \E p \in Procs, u \in SeqUsers, l \in Limits :
       NoCallRunning /\ get_user_history_start(p, u, l)
  \/ \E p \in Procs : get_user_history_steps(p)
  \/ \E p \in Procs, u \in SeqUsers :
       NoCallRunning /\ store_interaction_start(p, "t1", u, "resolved")
  \/ \E p \in Procs, o \in ToolOutcomes : store_interaction_status(p, o)
  \/ \E p \in Procs, o \in ToolOutcomes : store_interaction_message(p, o)
  \/ \E p \in Procs : store_interaction_list_keys(p)
  \/ \E p \in Procs : store_interaction_delete_keys(p)

SpecSeq == InitSeq /\ [][NextSeq]_vars

\* get_user_history and store_interaction of one user called by two workers
\* at the same time
InitRace ==
  /\ Constructed
  /\ NoPureCall
  /\ opsLeft = MaxRaceOps
  /\ ticksLeft = 0

NextRace ==
  \/ \E p \in Procs : get_user_history_start(p, UserA, EnrichLimit)
  \/ \E p \in Procs : get_user_history_steps(p)
  \/ \E p \in Procs : store_interaction_start(p, "t1", UserA, "resolved")
  \/ \E p \in Procs, o \in ToolOutcomes : store_interaction_status(p, o)
  \/ \E p \in Procs, o \in ToolOutcomes : store_interaction_message(p, o)
  \/ \E p \in Procs : store_interaction_list_keys(p)
  \/ \E p \in Procs : store_interaction_delete_keys(p)

SpecRace == InitRace /\ [][NextRace]_vars

\* invoke_ticket called for one ticket at a time, the supervisor's agents
\* spelled out
InitRoute ==
  /\ Constructed
  /\ NoPureCall
  /\ opsLeft = MaxRouteOps
  /\ ticksLeft = 0

RouteUsers == {UserA, UserUnknown}

NextRoute ==
  \/ \E p \in Procs, u \in RouteUsers : NoCallRunning /\ invoke_ticket_start(p, "t1", u)
  \/ \E p \in Procs : get_user_history_steps(p)
  \/ \E p \in Procs, text \in FinalTexts, c \in Classifications, e \in EscalationOutcomes :
       invoke_ticket_supervise_agents(p, text, c, e)
  \/ \E p \in Procs : invoke_ticket_supervise_raise(p)
  \/ \E p \in Procs, o \in ToolOutcomes : invoke_ticket_add_message(p, o)
  \/ \E p \in Procs, o \in ToolOutcomes : invoke_ticket_update_status(p, o)

SpecRoute == InitRoute /\ [][NextRoute]_vars

(* ------------------------- state.should_escalate ---------------------- *)
\* Optional[...] values: None, or the value set
None == <<>>
Some(v) == <<v>>

\* what a call hands back: a value, or an exception
Returned(v) == [raised |-> FALSE, value |-> v]
Raises == [raised |-> TRUE, value |-> FALSE]

\* line 181: confidence < 0.5, scores counted in hundredths
ConfidenceLowInclusive(confidence) == confidence <= EscalationThreshold

ConfidenceLow(confidence) == confidence < EscalationThreshold

\* lines 170-193; None < 0.5 and "refund" in None are TypeErrors
should_escalate(state) ==
  IF state.requires_escalation THEN Returned(TRUE)
  ELSE IF state.user_is_blocked THEN Returned(TRUE)
  ELSE IF state.knowledge_retrieved /\ state.confidence_score = None THEN Raises
  ELSE IF state.knowledge_retrieved /\ ConfidenceLow(state.confidence_score[1])
       THEN Returned(TRUE)
  ELSE IF state.urgency = Some("critical") THEN Returned(TRUE)
  ELSE IF state.category \in {Some("refund"), Some("billing")}
       THEN IF state.keywords = None THEN Raises
            ELSE Returned(\E i \in 1..Len(state.keywords[1]) : state.keywords[1][i] = "refund")
  ELSE Returned(FALSE)

\* the states of SupportTicketState, fields 32-58 that should_escalate reads
TicketStates ==
  [requires_escalation : BOOLEAN,
   user_is_blocked : BOOLEAN,
   knowledge_retrieved : BOOLEAN,
   confidence_score : {None, Some(0), Some(EscalationThreshold - 1),
                       Some(EscalationThreshold), Some(100)},
   urgency : {None, Some("low"), Some("critical")},
   category : {None, Some("billing"), Some("refund"), Some("technical")},
   keywords : {None, Some(<<>>), Some(<<"refund">>), Some(<<"charge", "refund">>),
               Some(<<"refunds">>)}]

\* should_escalate applied to any one of these states
InitEscalate ==
  /\ Constructed
  /\ opsLeft = 0
  /\ ticksLeft = 0
  /\ input \in TicketStates
  /\ output = <<>>

should_escalate_call ==
  /\ output = <<>>
  /\ output' = <<should_escalate(input)>>
  /\ UNCHANGED <<input, reservations, successes, users, tickets, status, messages, memory_cache, now, th,
                 opsLeft, ticksLeft>>

NextEscalate == should_escalate_call

SpecEscalate == InitEscalate /\ [][NextEscalate]_vars

(* ---------------- knowledge_tools.calculate_relevance_score ----------- *)
\* scores are counted in hundredths: 0.5, 0.15, 0.08, 0.2, 1.0
ExactTitleWeight == 50
TagWeight == 15
ContentWeight == 8
TitleWeight == 20
ScoreCap == 100

\* text[i..j] is a maximal run of non-blank characters
IsWord(text, i, j) ==
  /\ i <= j
  /\ \A k \in i..j : text[k] # " "
  /\ i = 1 \/ text[i - 1] = " "
  /\ j = Len(text) \/ text[j + 1] = " "

\* set(text.split())
Words(text) ==
  {SubSeq(text, x[1], x[2]) :
     x \in {y \in (1..Len(text)) \X (1..Len(text)) : IsWord(text, y[1], y[2])}}

\* text.replace(',', ' ')
CommasToBlanks(text) == [i \in 1..Len(text) |-> IF text[i] = "," THEN " " ELSE text[i]]

\* lines 42-43: the whole query inside the title
NoExactTitleBonus(query_lower, title_lower) == 0

ExactTitleBonus(query_lower, title_lower) ==
  IF Contains(title_lower, query_lower) THEN ExactTitleWeight ELSE 0

\* lines 46-48: query words that are tag words; no tags, no matches
tag_matches(query_words, tags_lower) ==
  IF tags_lower = <<>> THEN 0
  ELSE Cardinality(query_words \cap Words(CommasToBlanks(tags_lower)))

\* line 52: query words that occur anywhere in the content
content_matches(query_words, content_lower) ==
  Cardinality({word \in query_words : Contains(content_lower, word)})

\* line 56: query words that occur anywhere in the title
title_matches_none(query_words, title_lower) == 0

title_matches(query_words, title_lower) ==
  Cardinality({word \in query_words : Contains(title_lower, word)})

\* line 60: min(score, 1.0)
Uncapped(score) == score

Capped(score) == IF score < ScoreCap THEN score ELSE ScoreCap

\* the sum of lines 38-57, before the cap
RawScore(query, article) ==
  LET query_lower == Lower(query)
      title_lower == Lower(article.title)
      content_lower == Lower(article.content)
      tags_lower == Lower(article.tags)
      query_words == Words(query_lower)
  IN  ExactTitleBonus(query_lower, title_lower)
      + tag_matches(query_words, tags_lower) * TagWeight
      + content_matches(query_words, content_lower) * ContentWeight
      + title_matches(query_words, title_lower) * TitleWeight

calculate_relevance_score(query, article) == Capped(RawScore(query, article))

\* queries, titles, contents and tags as character sequences
QueryReset == <<"r", "e", "s", "e", "t">>
QueryResetPassword == <<"R", "e", "s", "e", "t", " ", "P", "a", "s", "s", "w", "o", "r", "d">>
QueryHowDoI == <<"H", "o", "w", " ", "d", "o", " ", "I", " ", "r", "e", "s", "e", "t", " ", "m", "y", " ", "p", "a", "s", "s", "w", "o", "r", "d", "?">>
Queries == {<<>>, QueryReset, QueryResetPassword, QueryHowDoI}

TitlePasswordReset == <<"P", "a", "s", "s", "w", "o", "r", "d", " ", "R", "e", "s", "e", "t">>
TitleGuide == <<"R", "e", "s", "e", "t", " ", "P", "a", "s", "s", "w", "o", "r", "d", " ", "G", "u", "i", "d", "e">>
TitleBilling == <<"B", "i", "l", "l", "i", "n", "g">>
Titles == {TitlePasswordReset, TitleGuide, TitleBilling}

ContentShort == <<"r", "e", "s", "e", "t", " ", "p", "a", "s", "s", "w", "o", "r", "d">>
ContentLong == <<"h", "o", "w", " ", "d", "o", " ", "i", " ", "r", "e", "s", "e", "t", " ", "m", "y", " ", "p", "a", "s", "s", "w", "o", "r", "d", "?", " ", "h", "e", "r", "e">>
ContentOther == <<"s", "e", "e", " ", "b", "i", "l", "l", "i", "n", "g">>
Contents == {ContentShort, ContentLong, ContentOther}

TagsReset == <<"r", "e", "s", "e", "t", ",", " ", "p", "a", "s", "s", "w", "o", "r", "d">>
TagsBilling == <<"b", "i", "l", "l", "i", "n", "g", ",", "r", "e", "f", "u", "n", "d">>
TagSets == {<<>>, TagsReset, TagsBilling}

Articles == [title : Titles, content : Contents, tags : TagSets]

\* calculate_relevance_score applied to one query and one article, then to
\* the same article with the query appended to its title
InitScore ==
  /\ Constructed
  /\ opsLeft = 0
  /\ ticksLeft = 0
  /\ input \in [query : Queries, article : Articles, appended : {FALSE}]
  /\ output = <<>>

calculate_relevance_score_call ==
  /\ Len(output) = (IF input.appended THEN 1 ELSE 0)
  /\ output' = Append(output, calculate_relevance_score(input.query, input.article))
  /\ UNCHANGED <<input, reservations, successes, users, tickets, status, messages, memory_cache, now, th,
                 opsLeft, ticksLeft>>

append_query_to_title ==
  /\ Len(output) = 1
  /\ ~input.appended
  /\ input' = [input EXCEPT !.appended = TRUE,
                            !.article.title = @ \o <<" ">> \o input.query]
  /\ UNCHANGED <<output, reservations, successes, users, tickets, status, messages, memory_cache, now, th,
                 opsLeft, ticksLeft>>

NextScore ==
  \/ calculate_relevance_score_call
  \/ append_query_to_title

SpecScore == InitScore /\ [][NextScore]_vars

(* ------------------ knowledge_tools.search_knowledge_base ------------- *)
\* line 114: score > 0.1; line 127: [:3]; line 133: confidence < 0.5
MinRelevance == 10
TopArticles == 3
KnowledgeThreshold == 50

SetMin(S) == CHOOSE x \in S : \A y \in S : x <= y
SetMax(S) == CHOOSE x \in S : \A y \in S : x >= y

\* str.strip() for blanks
Strip(text) ==
  LET solid == {i \in 1..Len(text) : text[i] # " "}
  IN  IF solid = {} THEN <<>> ELSE SubSeq(text, SetMin(solid), SetMax(solid))

\* line 95: tag_list[0], the text before the first comma, stripped, lowered
FirstTag(tags) ==
  LET commas == {i \in 1..Len(tags) : tags[i] = ","}
      stop == IF commas = {} THEN Len(tags) ELSE SetMin(commas) - 1
  IN  Lower(Strip(SubSeq(tags, 1, stop)))

\* lines 91-100: the account's articles, each with its place in the query's
\* answer as its id, kept when no tags are given or its tags hold tag_list[0]
Candidates(all_articles, tags) ==
  LET numbered == [i \in 1..Len(all_articles) |->
                     [article_id |-> i, article |-> all_articles[i]]]
  IN  IF tags = <<>> THEN numbered
      ELSE SelectSeq(numbered,
                     LAMBDA a : Contains(Lower(a.article.tags), FirstTag(tags)))

\* line 114: only articles with some relevance
RelevantAboveZero(score) == score > 0

Relevant(score) == score > MinRelevance

\* lines 111-121; round(score, 3) leaves a whole number of hundredths as it is
Scored(query, candidates) ==
  LET each == [i \in 1..Len(candidates) |->
                 [article_id |-> candidates[i].article_id,
                  relevance_score |-> calculate_relevance_score(query, candidates[i].article)]]
  IN  SelectSeq(each, LAMBDA a : Relevant(a.relevance_score))

\* list.sort(key=score, reverse=True) is stable: an article goes behind
\* every article whose score is at least its own
InsertBeforeTies(sorted, a) ==
  LET k == Cardinality({i \in 1..Len(sorted) : sorted[i].relevance_score > a.relevance_score})
  IN  SubSeq(sorted, 1, k) \o <<a>> \o SubSeq(sorted, k + 1, Len(sorted))

InsertAfterTies(sorted, a) ==
  LET k == Cardinality({i \in 1..Len(sorted) : sorted[i].relevance_score >= a.relevance_score})
  IN  SubSeq(sorted, 1, k) \o <<a>> \o SubSeq(sorted, k + 1, Len(sorted))

RECURSIVE SortByScore(_)
SortByScore(scored) ==
  IF scored = <<>> THEN <<>>
  ELSE InsertAfterTies(SortByScore(SubSeq(scored, 1, Len(scored) - 1)), scored[Len(scored)])

\* line 133: should_escalate = confidence < 0.5 or len(top_articles) == 0
EscalationFlagInclusive(confidence, count) == confidence <= KnowledgeThreshold \/ count = 0

EscalationFlag(confidence, count) == confidence < KnowledgeThreshold \/ count = 0

\* lines 86-150: outcome "ok" is a query that answered, "db_error" one that raised
search_knowledge_base(query, tags, all_articles, outcome) ==
  LET candidates == Candidates(all_articles, tags)
      top_articles == Take(SortByScore(Scored(query, candidates)), TopArticles)
      confidence == IF top_articles # <<>> THEN top_articles[1].relevance_score ELSE 0
  IN  IF outcome # "ok"
      THEN [articles |-> <<>>, confidence |-> 0, should_escalate |-> TRUE, error |-> TRUE]
      ELSE IF candidates = <<>>
      THEN [articles |-> <<>>, confidence |-> 0, should_escalate |-> TRUE, error |-> FALSE]
      ELSE [articles |-> top_articles, confidence |-> confidence,
            should_escalate |-> EscalationFlag(confidence, Len(top_articles)),
            error |-> FALSE]

\* the knowledge articles of the searches
TitleResetGuide == <<"R", "e", "s", "e", "t", " ", "G", "u", "i", "d", "e">>
ContentResetOnly == <<"r", "e", "s", "e", "t", " ", "i", "t">>
TagsLogin == <<"p", "a", "s", "s", "w", "o", "r", "d", ",", "r", "e", "s", "e", "t", ",", "l", "o", "g", "i", "n">>
ArticleBest == [title |-> TitlePasswordReset, content |-> ContentShort, tags |-> TagsReset]
ArticleGuide == [title |-> TitleResetGuide, content |-> ContentOther, tags |-> TagsReset]
ArticleGuideTwin == [title |-> TitleResetGuide, content |-> ContentOther, tags |-> TagsLogin]
ArticleContentOnly == [title |-> TitleBilling, content |-> ContentShort, tags |-> <<>>]
ArticleFaint == [title |-> TitleBilling, content |-> ContentResetOnly, tags |-> <<>>]
ArticleBillingOnly == [title |-> TitleBilling, content |-> ContentOther, tags |-> TagsBilling]
KnowledgeArticles ==
  {ArticleBest, ArticleGuide, ArticleGuideTwin, ArticleContentOnly, ArticleFaint,
   ArticleBillingOnly}

ArticleLists == UNION {[1..n -> KnowledgeArticles] : n \in 0..MaxArticles}

InitSearch ==
  /\ Constructed
  /\ opsLeft = 0
  /\ ticksLeft = 0
  /\ input \in [query : {QueryReset, QueryResetPassword},
                 tags : {<<>>, QueryReset},
                 all_articles : ArticleLists]
  /\ output = <<>>

search_knowledge_base_call(outcome) ==
  /\ output = <<>>
  /\ output' = <<search_knowledge_base(input.query, input.tags, input.all_articles, outcome)>>
  /\ UNCHANGED <<input, reservations, successes, users, tickets, status, messages, memory_cache, now, th,
                 opsLeft, ticksLeft>>

NextSearch == \E outcome \in {"ok", "db_error"} : search_knowledge_base_call(outcome)

SpecSearch == InitSearch /\ [][NextSearch]_vars

(* ---------------- MemoryManager.enrich_state_with_history ------------- *)
\* lines 155-186 on a whole state, `history` being what get_user_history gave
enrich_state_with_history(state, history) ==
  [state EXCEPT !.messages = Enriched(state.messages, history)]

\* lines 363-371: nothing is done without include_history or without a user_id
get_contextualized_state(state, include_history, history) ==
  IF ~include_history THEN state
  ELSE IF state.user_id = <<>> THEN state
  ELSE enrich_state_with_history(state, history)

\* the answers get_user_history can give
Histories ==
  {NoResult, HistoryErrorResult, HistoryFallback,
   [found |-> TRUE, error |-> FALSE, tickets |-> <<>>],
   [found |-> TRUE, error |-> FALSE,
    tickets |-> <<[ticket_id |-> "t1", status |-> "open", message_count |-> 0]>>],
   [found |-> TRUE, error |-> FALSE,
    tickets |-> <<[ticket_id |-> "t2", status |-> "unknown", message_count |-> 0],
                  [ticket_id |-> "t1", status |-> "resolved", message_count |-> 1]>>]}

MessageLists == UNION {[1..n -> {"human", "ai"}] : n \in 0..MaxMessages}

InitEnrich ==
  /\ Constructed
  /\ opsLeft = 0
  /\ ticksLeft = 0
  /\ input \in [state : [messages : MessageLists, user_id : {<<>>, UserA},
                          ticket_id : {"t1"}, status : {"processing"}],
                 include_history : BOOLEAN,
                 history : Histories]
  /\ output = <<>>

get_contextualized_state_call ==
  /\ output = <<>>
  /\ output' = <<get_contextualized_state(input.state, input.include_history, input.history)>>
  /\ UNCHANGED <<input, reservations, successes, users, tickets, status, messages, memory_cache, now, th,
                 opsLeft, ticksLeft>>

NextEnrich == get_contextualized_state_call

SpecEnrich == InitEnrich /\ [][NextEnrich]_vars

(* ------------------- account_tools.cancel_reservation ----------------- *)
\* lines 281-293: the reservation exists and is not cancelled yet
CanCancelAgain(reservation_status) == reservation_status # "none"

CanCancel(reservation_status) == reservation_status \notin {"none", "cancelled"}

\* lines 273-319 in one session: outcome "db_error" is a query or a commit
\* that raised, which rolls back and answers success = false
cancel_reservation(reservation_id, outcome) ==
  LET success == outcome = "ok" /\ CanCancel(reservations[reservation_id]) IN
  /\ opsLeft > 0
  /\ reservations' = IF success THEN [reservations EXCEPT ![reservation_id] = "cancelled"]
                     ELSE reservations
  /\ successes' = IF success THEN [successes EXCEPT ![reservation_id] = @ + 1]
                  ELSE successes
  /\ output' = <<[reservation_id |-> reservation_id, success |-> success]>>
  /\ opsLeft' = opsLeft - 1
  /\ UNCHANGED <<input, users, tickets, status, messages, memory_cache, now, th, ticksLeft>>

\* any reservations in the store, cancel_reservation called one call after
\* the other
InitCancel ==
  /\ UdaHubConstructed
  /\ NoPureCall
  /\ reservations \in [ReservationIds -> {"none", "reserved", "completed", "cancelled"}]
  /\ successes = [r \in ReservationIds |-> 0]
  /\ opsLeft = MaxCancels
  /\ ticksLeft = 0

NextCancel == \E r \in ReservationIds, o \in {"ok", "db_error"} : cancel_reservation(r, o)

SpecCancel == InitCancel /\ [][NextCancel]_vars

C3_OneRunPerTicket ==
  \A p, q \in Procs :
    (/\ p # q
     /\ th[p].op = "invoke" /\ th[p].pc \notin Ended
     /\ th[q].op = "invoke" /\ th[q].pc \notin Ended)
    => th[p].ticket_id # th[q].ticket_id

\* C4 as stated: in no reachable state has an invoke_ticket run written its
\* final message without its status, or its status without its message.
C4_MessageAndStatusTogether ==
  \A p \in Procs : th[p].op = "invoke" => (th[p].wroteMsg <=> th[p].wroteStatus)

\* C5 as stated: when a handler call fails, invoke_ticket does not raise to
\* its caller.
C5_FailureDoesNotRaise ==
  \A p \in Procs : (th[p].op = "invoke" /\ th[p].handlerFailed) => th[p].pc # "raised"

\* C6: the step in which the supervisor fails, and whatever the run does
\* after it, leaves every stored status and message as it was, and the run
\* has written neither a message nor a status.
C6_NoWriteAfterHandlerFailure ==
  [][\A p \in Procs :
       (th'[p].op = "invoke" /\ th'[p].handlerFailed) =>
          /\ ~th'[p].wroteMsg /\ ~th'[p].wroteStatus
          /\ th'[p] # th[p] => (status' = status /\ messages' = messages)]_vars

\* C6 witness: a run whose supervisor call failed, on a ticket that exists.
C6_HandlerFailed ==
  \E p \in Procs :
    /\ th[p].op = "invoke" /\ th[p].handlerFailed
    /\ TicketExists(th[p].ticket_id)
    /\ status[th[p].ticket_id] = th[p].startStatus

\* C7 as stated: a cached value is returned only if now - fetched_at < 300.
C7_ServedOnlyWithinTtl ==
  \A p \in Procs : th[p].served => th[p].readAge < TTL

\* C8: a get_user_history that finds an entry younger than 300 s returns it
\* without an upstream fetch; one that finds an entry 301 s old does not
\* return it and fetches upstream.
C8_TtlWindow ==
  \A p \in Procs :
    /\ th[p].readAge \in 0..(TTL - 1) => (th[p].served /\ th[p].fetches = 0)
    /\ th[p].readAge = TTL + 1 =>
         (~th[p].served /\ (th[p].pc = "g_fetch" \/ th[p].fetches = 1))

\* C8 witness: one call served from an entry 1..299 s old, another that
\* found the entry 301 s old and fetched again.
C8_ServedThenRefetched ==
  \E p, q \in Procs :
    /\ th[p].served /\ th[p].readAge \in 1..(TTL - 1)
    /\ th[q].readAge = TTL + 1 /\ th[q].fetches = 1 /\ th[q].pc = "done"

\* C9: a get_user_history whose upstream fetch failed does not raise and
\* hands its caller a result with found = false and no tickets, so an
\* invoke_ticket goes on with its messages as they were.
C9_FetchFailureIsNotFound ==
  \A p \in Procs :
    th[p].fetchFailed =>
      /\ th[p].pc = "raised" => th[p].handlerFailed
      /\ ~th[p].history.found /\ th[p].history.tickets = <<>>
      /\ ~th[p].histFound
      /\ (th[p].op = "invoke" /\ th[p].pc = "supervise") => th[p].state_messages = <<"human">>
      /\ (th[p].op = "get" /\ th[p].pc = "done") => th[p].ret = "history"

\* C9 witness: a direct call that returned after its upstream fetch raised.
C9_ReturnedAfterRaise ==
  \E p \in Procs :
    /\ th[p].op = "get" /\ th[p].pc = "done" /\ th[p].fetchFailed
    /\ th[p].ret = "history" /\ ~th[p].history.found
    /\ cache_key(UserA, 1) \notin DOMAIN memory_cache
    /\ cache_key(UserA, EnrichLimit) \notin DOMAIN memory_cache

\* C10 as stated: no result of a failed upstream fetch is in the cache.
C10_OnlySuccessCached ==
  \A k \in DOMAIN memory_cache : ~memory_cache[k][1].error

\* C11: when the cache clearing of store_interaction(user_id) has run, no
\* cache entry of that user is left for any limit; a get_user_history that
\* finds no entry for its key goes to the database, and what it fetched is
\* the user's history as the store holds it then.
C11_ClearedThenFresh ==
  [][\A p \in Procs :
       /\ (th[p].pc = "s_del" /\ th'[p].pc = "done" /\ th'[p].ret = "True") =>
             \A l \in Limits \cup {5, 10} :
                cache_key(th[p].user_id, l) \notin DOMAIN memory_cache'
       /\ (th[p].pc = "g_check" /\ th'[p].pc # "g_check"
            /\ cache_key(th[p].user_id, th[p].limit) \notin DOMAIN memory_cache) =>
             th'[p].pc = "g_fetch"
       /\ (th[p].pc = "g_fetch" /\ th'[p].pc = "g_store" /\ ~th'[p].fetchFailed) =>
             /\ th'[p].fetches = th[p].fetches + 1
             /\ th'[p].history = UserHistory(th[p].user_id, th[p].limit)]_vars

\* C11 witness: a store_interaction that removed the user's entries for both
\* limits, and a get_user_history that then fetched and returned the status
\* that store_interaction wrote.
C11_FetchedAfterClear ==
  \E p, q \in Procs :
    /\ th[q].op = "store" /\ th[q].pc = "done" /\ th[q].ret = "True"
    /\ th[q].cleared = 2 /\ th[q].wroteStatus
    /\ th[p].op = "get" /\ th[p].pc = "done" /\ th[p].fetches = 1 /\ ~th[p].served
    /\ th[p].history.found
    /\ \E i \in 1..Len(th[p].history.tickets) :
          /\ th[p].history.tickets[i].ticket_id = "t1"
          /\ th[p].history.tickets[i].status = "resolved"

\* C12 as stated: an invoke_ticket that starts after an earlier run on the
\* same ticket wrote its status is not handed a history entry from the cache
\* (the earlier run cleared the user's entries, so its Get fetches).
C12_RunAfterRunFetches ==
  \A p \in Procs : (th[p].op = "invoke" /\ th[p].rerun) => ~th[p].served

\* the five conditions of the escalation policy, on a state whose
\* confidence_score and keywords may be None
EscalationConditionHolds(state) ==
  \/ state.requires_escalation
  \/ state.user_is_blocked
  \/ /\ state.knowledge_retrieved
     /\ state.confidence_score # None
     /\ state.confidence_score[1] < 50
  \/ state.urgency = Some("critical")
  \/ /\ state.category \in {Some("billing"), Some("refund")}
     /\ state.keywords # None
     /\ \E i \in 1..Len(state.keywords[1]) : state.keywords[1][i] = "refund"

C14_NeverRaises ==
  output # <<>> => ~output[1].raised

\* the title the article had before the query was appended to it
TitleBefore ==
  IF input.appended
  THEN SubSeq(input.article.title, 1, Len(input.article.title) - Len(input.query) - 1)
  ELSE input.article.title

\* C15: every score returned is between 0 and 1 (0..100 hundredths).
C15_ScoreInUnitRange ==
  \A i \in 1..Len(output) : output[i] >= 0 /\ output[i] <= 100

\* C15 witness: the matches of an article add up to more than 1 and the
\* score returned is 1.
C15_CapApplied ==
  /\ Len(output) = 1
  /\ RawScore(input.query, input.article) > 100
  /\ output[1] = 100

IsPasswordResetCase ==
  /\ input.query = QueryHowDoI
  /\ input.article.title = TitlePasswordReset
  /\ Contains(Lower(input.article.content), <<"r", "e", "s", "e", "t">>)
  /\ Contains(Lower(input.article.content), <<"p", "a", "s", "s", "w", "o", "r", "d">>)

\* C17 as stated: for "How do I reset my password?" such an article scores
\* at least 0.7.
C17_PasswordResetAtLeast70 ==
  (Len(output) = 1 /\ IsPasswordResetCase) => output[1] >= 70

\* C17 amended: such an article scores at least 0.28 (one title word, one
\* content word); 0.7 takes tag matches and further content matches.
C17_PasswordResetAtLeast28 ==
  (Len(output) = 1 /\ IsPasswordResetCase) => output[1] >= 28

\* C17 witness: such an article, without tags, scoring exactly 0.28.
C17_PasswordResetScores28 ==
  /\ Len(output) = 1 /\ IsPasswordResetCase
  /\ input.article.tags = <<>>
  /\ output[1] = 28

\* C18 as stated: the status written by a run whose classification is
\* billing with a "refund" keyword is escalated, whatever the final text.
C18_RefundEndsEscalated ==
  \A p \in Procs :
    (/\ th[p].op = "invoke" /\ th[p].wroteStatus
     /\ th[p].category = Some("billing")
     /\ \E i \in 1..Len(th[p].keywords[1]) : th[p].keywords[1][i] = "refund")
    => th[p].status_arg = "escalated"

\* C19 as stated: a run writes the status escalated only when
\* create_escalation_ticket has created the escalation record.
C19_EscalatedOnlyAfterRecord ==
  \A p \in Procs :
    (th[p].op = "invoke" /\ th[p].wroteStatus /\ th[p].status_arg = "escalated")
    => th[p].escalation = "created"

\* C20 as stated: no get_user_history fails because the entry it found in
\* its existence check was removed before it read it.
C20_GetNeverLosesEntry ==
  \A p \in Procs : th[p].op = "get" => th[p].ret # "KeyError"

\* the scores of the candidate articles of the search in `input`
CandidateScores ==
  LET candidates == Candidates(input.all_articles, input.tags)
  IN  {calculate_relevance_score(input.query, candidates[i].article) :
         i \in 1..Len(candidates)}

\* C21: at most 3 articles are returned, their scores never increase along
\* the list, and of two returned articles with equal scores the one that
\* came first in the query's answer comes first.
C21_TopThreeStableOrder ==
  output # <<>> =>
    LET articles == output[1].articles IN
    /\ Len(articles) <= 3
    /\ \A i, j \in 1..Len(articles) : i < j =>
          /\ articles[i].relevance_score >= articles[j].relevance_score
          /\ articles[i].relevance_score = articles[j].relevance_score =>
                articles[i].article_id < articles[j].article_id

\* C21 witness: four articles qualified, three were returned, and two of
\* the returned ones tie.
C21_TieAmongTopThree ==
  /\ output # <<>>
  /\ Len(Scored(input.query, Candidates(input.all_articles, input.tags))) = 4
  /\ Len(output[1].articles) = 3
  /\ \E i \in 1..2 :
        /\ output[1].articles[i].relevance_score = output[1].articles[i + 1].relevance_score
        /\ input.all_articles[output[1].articles[i].article_id]
             # input.all_articles[output[1].articles[i + 1].article_id]

\* C22 as stated: the confidence is the greatest score among the candidate
\* articles, and 0 when no article is returned.
C22_ConfidenceIsMaxScore ==
  (output # <<>> /\ ~output[1].error) =>
    /\ CandidateScores # {} => output[1].confidence = SetMax(CandidateScores)
    /\ output[1].articles = <<>> => output[1].confidence = 0

\* C22 amended: the confidence is the greatest score above 0.1 among the
\* candidate articles, which is the score of the first article returned,
\* and 0 when no candidate scores above 0.1 (no article is returned).
C22_ConfidenceIsMaxRelevantScore ==
  (output # <<>> /\ ~output[1].error) =>
    LET relevant == {x \in CandidateScores : x > 10} IN
    /\ relevant # {} =>
          /\ output[1].confidence = SetMax(relevant)
          /\ output[1].articles # <<>>
          /\ output[1].articles[1].relevance_score = output[1].confidence
    /\ relevant = {} => (output[1].articles = <<>> /\ output[1].confidence = 0)

\* C22 witness: the best candidate scores 0.08, nothing is returned and the
\* confidence is 0.
C22_FaintCandidateDropped ==
  /\ output # <<>> /\ ~output[1].error
  /\ CandidateScores # {} /\ SetMax(CandidateScores) = 8
  /\ output[1].articles = <<>> /\ output[1].confidence = 0

C24_TrueOnlyIfStored ==
  \A p \in Procs :
    (th[p].op = "store" /\ th[p].pc = "done" /\ th[p].ret = "True")
    => (th[p].wroteStatus /\ th[p].wroteMsg)

\* C25 as stated: the cache clearing of store_interaction(user_id) leaves
\* every entry that is not keyed by that user_id in the cache, unchanged.
C25_OtherUsersKept ==
  [][\A p \in Procs :
       (th[p].pc = "s_del" /\ th'[p].pc = "done") =>
          \A k \in DOMAIN memory_cache :
             (\A l \in Limits \cup {5, 10} : k # cache_key(th[p].user_id, l)) =>
                (k \in DOMAIN memory_cache' /\ memory_cache'[k] = memory_cache[k])]_vars

\* C26 as stated: once a store_interaction has written the status resolved
\* and cleared the cache, no get_user_history is served from the cache a
\* history fetched before that write (one that shows the ticket unresolved).
C26_NoStaleEntryAfterClear ==
  [][\A p, q \in Procs :
       (/\ th[q].op = "store" /\ th[q].pc = "done" /\ th[q].ret = "True"
        /\ th[q].wroteStatus
        /\ th[p].op = "get" /\ th[p].pc = "g_read" /\ th'[p].served) =>
          \A i \in 1..Len(th'[p].history.tickets) :
             th'[p].history.tickets[i].ticket_id = th[q].ticket_id =>
                th'[p].history.tickets[i].status = th[q].status_arg]_vars

\* C27 as stated: every invoke_ticket run that returned has written a
\* status, resolved or escalated.
C27_EveryRunWritesStatus ==
  \A p \in Procs :
    (th[p].op = "invoke" /\ th[p].pc = "done") =>
      (th[p].wroteStatus /\ th[p].status_arg \in {"resolved", "escalated"})

\* C27 amended: a run that returned has written at most one status, and
\* none when the ticket is not in the store; a status it wrote is escalated
\* when the final text holds "escalat" or "billing team" in any case of
\* letters, and resolved otherwise.
C27_StatusFollowsFinalText ==
  \A p \in Procs :
    (th[p].op = "invoke" /\ th[p].pc = "done") =>
      /\ ~TicketExists(th[p].ticket_id) => (~th[p].wroteStatus /\ ~th[p].wroteMsg)
      /\ th[p].wroteStatus =>
           /\ th[p].final_text \in {TextEscalated, TextBilling} => th[p].status_arg = "escalated"
           /\ th[p].final_text = TextPlain => th[p].status_arg = "resolved"
           /\ th[p].status_arg \in {"resolved", "escalated"}

\* C27 witness: one run returned for a ticket that is not in the store and
\* wrote nothing, another wrote escalated for the final text "Billing Team".
C27_UnknownTicketNoStatus ==
  \E p, q \in Procs :
    /\ th[p].op = "invoke" /\ th[p].pc = "done" /\ th[p].ret = "final_text"
    /\ ~TicketExists(th[p].ticket_id) /\ ~th[p].wroteStatus
    /\ th[q].op = "invoke" /\ th[q].pc = "done" /\ th[q].wroteStatus
    /\ th[q].final_text = TextBilling /\ th[q].status_arg = "escalated"

\* the call in `input` reaches the enrichment with a found, non-empty history
EnrichmentApplies ==
  /\ input.include_history /\ input.state.user_id # <<>>
  /\ input.history.found /\ input.history.tickets # <<>>

\* C28: with a found, non-empty history the state comes back with one
\* context message right behind the first message (alone if there was
\* none), the other messages in their places and every other field as it
\* was; in every other case the state comes back as it was.
C28_ContextAfterFirstMessage ==
  output # <<>> =>
    LET old == input.state.messages
        new == output[1].messages
    IN  /\ [output[1] EXCEPT !.messages = old] = input.state
        /\ ~EnrichmentApplies => new = old
        /\ EnrichmentApplies =>
              /\ Len(new) = Len(old) + 1
              /\ old = <<>> => new = <<"context">>
              /\ old # <<>> =>
                    /\ new[1] = old[1]
                    /\ new[2] = "context"
                    /\ \A i \in 2..Len(old) : new[i + 1] = old[i]

\* C28 witness: three messages before, four after, the context second.
C28_ContextInsertedSecond ==
  /\ output # <<>> /\ EnrichmentApplies
  /\ Len(input.state.messages) = 3
  /\ output[1].messages[1] = input.state.messages[1]
  /\ output[1].messages[2] = "context"
  /\ Len(output[1].messages) = 4

\* C29: a cancelled reservation stays cancelled; a reservation changes only
\* from not cancelled to cancelled, in a call that reports success; a call
\* that reports failure changes no reservation; a call on a cancelled or
\* missing reservation reports failure, a call on any other reservation
\* that the database answers reports success; and no reservation has more
\* than one successful call.
C29_CancelOnlyOnce ==
  [][\A r \in ReservationIds :
       /\ reservations[r] = "cancelled" => reservations'[r] = "cancelled"
       /\ reservations'[r] # reservations[r] =>
             /\ reservations[r] \notin {"none", "cancelled"}
             /\ reservations'[r] = "cancelled"
             /\ output' = <<[reservation_id |-> r, success |-> TRUE]>>
       /\ (opsLeft' # opsLeft /\ output'[1].reservation_id = r) =>
             /\ ~output'[1].success => reservations' = reservations
             /\ reservations[r] \in {"none", "cancelled"} => ~output'[1].success
             /\ output'[1].success => reservations'[r] = "cancelled"
       /\ successes'[r] <= 1]_vars

\* C29 witness: a first call cancelled a reservation, a later call on it
\* reported failure.
C29_SecondCancelRefused ==
  \E r \in ReservationIds :
    /\ successes[r] = 1 /\ reservations[r] = "cancelled"
    /\ output = <<[reservation_id |-> r, success |-> FALSE]>>

\* C30 as stated: a create_escalation_ticket that answers success adds
\* exactly one ticket, its status escalated and one system message, and one
\* that answers failure adds nothing to the store.
C30_AllOrNothing ==
  [][\A p \in Procs :
       (th[p].pc = "supervise" /\ th'[p].pc = "add_msg") =>
         IF th'[p].escalation_answer = "success"
         THEN /\ Len(tickets') = Len(tickets) + 1
              /\ SubSeq(tickets', 1, Len(tickets)) = tickets
              /\ LET e == tickets'[Len(tickets')].ticket_id IN
                   /\ ~TicketExists(e)
                   /\ status' = [status EXCEPT ![e] = "escalated"]
                   /\ Len(messages'[e]) = 1 /\ messages'[e][1].role = "system"
                   /\ \A t \in TicketIds \ {e} : messages'[t] = messages[t]
         ELSE UNCHANGED <<tickets, status, messages>>]_vars

====
